---- MODULE Spec2Model ----
(***************************************************************************)
(* Model of mcp.server.session.ServerSession: the lifecycle state machine  *)
(* of the server side of an MCP session, its inbound dispatch hooks        *)
(* (_received_request, _received_notification) and its nine outbound       *)
(* operations.  The transport half (mcp.shared.session.BaseSession and     *)
(* RequestResponder) is modelled from the specification of the transport   *)
(* session: in-order, one-at-a-time delivery, the reply channel, the       *)
(* translation of a raised request fault into an error reply, and          *)
(* sendRequest / sendNotification.                                         *)
(***************************************************************************)
EXTENDS Integers, Sequences, FiniteSets, TLC

\* ---------------------------------------------------------------- bounds
MaxEvents == 4       \* inbound messages plus outbound operations in one session

\* ------------------------------------------------------- lifecycle state
NotInitialized == "NotInitialized"
Initializing == "Initializing"
Initialized == "Initialized"

InitializationState == {NotInitialized, Initializing, Initialized}

\* the value of each member of the enum
Rank(s) == CASE s = NotInitialized -> 1
             [] s = Initializing -> 2
             [] s = Initialized -> 3

\* ------------------------------------------------------------- messages
LATEST_PROTOCOL_VERSION == "2024-11-05"

RequestedVersions == {"2024-11-05", "1.0"}

InitializeMethod == "initialize"
InitializedMethod == "notifications/initialized"
OtherRequestMethods == {"ping"}
OtherNotificationMethods == {"notifications/progress"}

Ids == {1, 2}

InitializeRequests ==
    [type : {"request"}, method : {InitializeMethod}, id : Ids,
     protocolVersion : RequestedVersions]

OtherRequests ==
    [type : {"request"}, method : OtherRequestMethods, id : Ids,
     protocolVersion : {"none"}]

ClientRequest == InitializeRequests \cup OtherRequests

ClientNotification ==
    [type : {"notification"},
     method : {InitializedMethod} \cup OtherNotificationMethods,
     id : {0}, protocolVersion : {"none"}]

NoMsg == [type |-> "none", method |-> "none", id |-> 0, protocolVersion |-> "none"]

IsHandshake(m) == m.method \in {InitializeMethod, InitializedMethod}

\* ------------------------------------------------ initialization options
InitializationOptions ==
    { [server_name |-> "srv", server_version |-> "1.0", capabilities |-> {}],
      [server_name |-> "demo", server_version |-> "0.1", capabilities |-> {"tools"}] }

NoSend == [kind |-> "none", method |-> "none", status |-> "none"]

NoResult ==
    [protocolVersion |-> "none", capabilities |-> {},
     serverInfo |-> [name |-> "none", version |-> "none"]]

NoCur == [msg |-> NoMsg, result |-> NoResult, at |-> "none"]

VARIABLES
    state,          \* self._initialization_state
    init_options,   \* self._init_options
    pc,             \* position of the inbound dispatch: idle, responding,
                    \* checkpoint, cancelled
    cur,            \* the inbound message being handled, and the result built for it
    log,            \* inbound messages handled so far, with their outcome
    outbox,         \* replies sent to the peer on the reply channel
    outbound,       \* outbound requests issued, with the status of each call
    sent,           \* the last outbound message handed to the transport
    notified,       \* number of outbound notifications issued
    closed          \* the transport session has closed

vars == <<state, init_options, pc, cur, log, outbox, outbound, sent, notified, closed>>

\* ------------------------------------------ ServerSession._received_request
\* What the hook does with one request: the next lifecycle state, and whether
\* it responds (with which result), raises, or returns without responding.
ReceivedRequest_FirstOnly(st, opts, req) ==
    IF req.method = InitializeMethod /\ st = NotInitialized
    THEN [state |-> Initializing, effect |-> "respond",
          result |-> [protocolVersion |-> LATEST_PROTOCOL_VERSION,
                      capabilities |-> opts.capabilities,
                      serverInfo |-> [name |-> opts.server_name,
                                      version |-> opts.server_version]]]
    ELSE IF req.method = InitializeMethod
    THEN [state |-> st, effect |-> "return", result |-> NoResult]
    ELSE IF st # Initialized
    THEN [state |-> st, effect |-> "raise", result |-> NoResult]
    ELSE [state |-> st, effect |-> "return", result |-> NoResult]

ReceivedRequest_RejectSecond(st, opts, req) ==
    IF req.method = InitializeMethod /\ st = NotInitialized
    THEN [state |-> Initializing, effect |-> "respond",
          result |-> [protocolVersion |-> LATEST_PROTOCOL_VERSION,
                      capabilities |-> opts.capabilities,
                      serverInfo |-> [name |-> opts.server_name,
                                      version |-> opts.server_version]]]
    ELSE IF req.method = InitializeMethod
    THEN [state |-> st, effect |-> "raise", result |-> NoResult]
    ELSE IF st # Initialized
    THEN [state |-> st, effect |-> "raise", result |-> NoResult]
    ELSE [state |-> st, effect |-> "return", result |-> NoResult]

ReceivedRequest_Negotiated(st, opts, req) ==
    IF req.method = InitializeMethod
    THEN [state |-> Initializing, effect |-> "respond",
          result |-> [protocolVersion |-> req.protocolVersion,
                      capabilities |-> opts.capabilities,
                      serverInfo |-> [name |-> opts.server_name,
                                      version |-> opts.server_version]]]
    ELSE IF st # Initialized
    THEN [state |-> st, effect |-> "raise", result |-> NoResult]
    ELSE [state |-> st, effect |-> "return", result |-> NoResult]

ReceivedRequest_OnlyNotInitialized(st, opts, req) ==
    IF req.method = InitializeMethod
    THEN [state |-> Initializing, effect |-> "respond",
          result |-> [protocolVersion |-> LATEST_PROTOCOL_VERSION,
                      capabilities |-> opts.capabilities,
                      serverInfo |-> [name |-> opts.server_name,
                                      version |-> opts.server_version]]]
    ELSE IF st = NotInitialized
    THEN [state |-> st, effect |-> "raise", result |-> NoResult]
    ELSE [state |-> st, effect |-> "return", result |-> NoResult]

ReceivedRequest_ResetOnReject(st, opts, req) ==
    IF req.method = InitializeMethod
    THEN [state |-> Initializing, effect |-> "respond",
          result |-> [protocolVersion |-> LATEST_PROTOCOL_VERSION,
                      capabilities |-> opts.capabilities,
                      serverInfo |-> [name |-> opts.server_name,
                                      version |-> opts.server_version]]]
    ELSE IF st # Initialized
    THEN [state |-> NotInitialized, effect |-> "raise", result |-> NoResult]
    ELSE [state |-> st, effect |-> "return", result |-> NoResult]

ReceivedRequest_Hoisted(st, opts, req) ==
    IF req.method = InitializeMethod
    THEN [state |-> Initializing, effect |-> "respond",
          result |-> [protocolVersion |-> LATEST_PROTOCOL_VERSION,
                      capabilities |-> opts.capabilities,
                      serverInfo |-> [name |-> opts.server_name,
                                      version |-> opts.server_version]]]
    ELSE [state |-> Initializing, effect |-> "raise", result |-> NoResult]

ReceivedRequest_NoGuard(st, opts, req) ==
    IF req.method = InitializeMethod
    THEN [state |-> Initializing, effect |-> "respond",
          result |-> [protocolVersion |-> LATEST_PROTOCOL_VERSION,
                      capabilities |-> opts.capabilities,
                      serverInfo |-> [name |-> opts.server_name,
                                      version |-> opts.server_version]]]
    ELSE [state |-> st, effect |-> "return", result |-> NoResult]

ReceivedRequest(st, opts, req) ==
    IF req.method = InitializeMethod
    THEN [state |-> Initializing, effect |-> "respond",
          result |-> [protocolVersion |-> LATEST_PROTOCOL_VERSION,
                      capabilities |-> opts.capabilities,
                      serverInfo |-> [name |-> opts.server_name,
                                      version |-> opts.server_version]]]
    ELSE IF st # Initialized
    THEN [state |-> st, effect |-> "raise", result |-> NoResult]
    ELSE [state |-> st, effect |-> "return", result |-> NoResult]

\* ------------------------------------- ServerSession._received_notification
\* The part of the hook after the checkpoint.
ReceivedNotification_OnlyNotInitialized(st, n) ==
    IF n.method = InitializedMethod
    THEN [state |-> Initialized, effect |-> "return"]
    ELSE IF st = NotInitialized
    THEN [state |-> st, effect |-> "raise"]
    ELSE [state |-> st, effect |-> "return"]

ReceivedNotification_Strict(st, n) ==
    IF n.method = InitializedMethod
    THEN IF st = Initializing
         THEN [state |-> Initialized, effect |-> "return"]
         ELSE [state |-> st, effect |-> "raise"]
    ELSE IF st # Initialized
    THEN [state |-> st, effect |-> "raise"]
    ELSE [state |-> st, effect |-> "return"]

ReceivedNotification(st, n) ==
    IF n.method = InitializedMethod
    THEN [state |-> Initialized, effect |-> "return"]
    ELSE IF st # Initialized
    THEN [state |-> st, effect |-> "raise"]
    ELSE [state |-> st, effect |-> "return"]

\* ------------------------------------------------------ transport session
LogEntry(m, before, after, outcome) ==
    [msg |-> m, at |-> before, after |-> after, outcome |-> outcome]

ResultReply(id, result) == [type |-> "result", id |-> id, result |-> result]

ErrorReply(id) == [type |-> "error", id |-> id, result |-> NoResult]

Init ==
    /\ state = NotInitialized
    /\ init_options \in InitializationOptions
    /\ pc = "idle"
    /\ cur = NoCur
    /\ log = <<>>
    /\ outbox = <<>>
    /\ outbound = <<>>
    /\ sent = NoSend
    /\ notified = 0
    /\ closed = FALSE

\* inbound messages delivered and outbound operations invoked so far
Events == Len(log) + Len(outbound) + notified + (IF pc = "idle" THEN 0 ELSE 1)

CanDeliver == pc = "idle" /\ ~closed /\ Events < MaxEvents

DeliverRequest_Concurrent ==
    /\ ~closed
    /\ pc \in {"idle", "checkpoint"}
    /\ Len(log) + Len(outbound) + notified + 1 < MaxEvents
    /\ \E req \in ClientRequest :
         LET r == ReceivedRequest(state, init_options, req) IN
           /\ state' = r.state
           /\ CASE r.effect = "respond" ->
                     /\ pc' = "responding"
                     /\ cur' = [msg |-> req, result |-> r.result, at |-> state]
                     /\ UNCHANGED <<log, outbox>>
                [] r.effect = "raise" ->
                     /\ log' = Append(log, LogEntry(req, state, r.state, "rejected"))
                     /\ outbox' = Append(outbox, ErrorReply(req.id))
                     /\ UNCHANGED <<pc, cur>>
                [] r.effect = "return" ->
                     /\ log' = Append(log, LogEntry(req, state, r.state, "forwarded"))
                     /\ UNCHANGED <<pc, cur, outbox>>
    /\ UNCHANGED <<init_options, outbound, sent, notified, closed>>

\* The delivery callback for one inbound request: runs _received_request up
\* to its first suspension.  An initialization request sets the state and
\* suspends in responder.respond; a raised fault is answered with an error
\* reply; a request that was not responded to goes to the domain handler.
DeliverRequest ==
    /\ CanDeliver
    /\ \E req \in ClientRequest :
         LET r == ReceivedRequest(state, init_options, req) IN
           /\ state' = r.state
           /\ CASE r.effect = "respond" ->
                     /\ pc' = "responding"
                     /\ cur' = [msg |-> req, result |-> r.result, at |-> state]
                     /\ UNCHANGED <<log, outbox>>
                [] r.effect = "raise" ->
                     /\ log' = Append(log, LogEntry(req, state, r.state, "rejected"))
                     /\ outbox' = Append(outbox, ErrorReply(req.id))
                     /\ UNCHANGED <<pc, cur>>
                [] r.effect = "return" ->
                     /\ log' = Append(log, LogEntry(req, state, r.state, "forwarded"))
                     /\ UNCHANGED <<pc, cur, outbox>>
    /\ UNCHANGED <<init_options, outbound, sent, notified, closed>>

\* responder.respond completes: the handshake result goes out on the reply
\* channel of the request being handled.
RespondDone ==
    /\ pc = "responding"
    /\ ~closed
    /\ outbox' = Append(outbox, ResultReply(cur.msg.id, cur.result))
    /\ log' = Append(log, LogEntry(cur.msg, cur.at, state, "replied"))
    /\ pc' = "idle"
    /\ cur' = NoCur
    /\ UNCHANGED <<state, init_options, outbound, sent, notified, closed>>

\* The delivery callback for one inbound notification: _received_notification
\* starts and yields at anyio.lowlevel.checkpoint().
DeliverNotification ==
    /\ CanDeliver
    /\ \E n \in ClientNotification :
         /\ pc' = "checkpoint"
         /\ cur' = [msg |-> n, result |-> NoResult, at |-> "none"]
    /\ UNCHANGED <<state, init_options, log, outbox, outbound, sent, notified, closed>>

NotificationResumed_Replying ==
    /\ pc = "checkpoint"
    /\ ~closed
    /\ LET r == ReceivedNotification(state, cur.msg) IN
         /\ state' = r.state
         /\ log' = Append(log,
                     LogEntry(cur.msg, state, r.state,
                        IF r.effect = "raise" THEN "rejected"
                        ELSE IF cur.msg.method = InitializedMethod THEN "accepted"
                        ELSE "forwarded"))
         /\ outbox' = IF r.effect = "raise"
                      THEN Append(outbox, ErrorReply(cur.msg.id))
                      ELSE outbox
    /\ pc' = "idle"
    /\ cur' = NoCur
    /\ UNCHANGED <<init_options, outbound, sent, notified, closed>>

\* _received_notification resumes after the checkpoint.
NotificationResumed ==
    /\ pc = "checkpoint"
    /\ ~closed
    /\ LET r == ReceivedNotification(state, cur.msg) IN
         /\ state' = r.state
         /\ log' = Append(log,
                     LogEntry(cur.msg, state, r.state,
                        IF r.effect = "raise" THEN "rejected"
                        ELSE IF cur.msg.method = InitializedMethod THEN "accepted"
                        ELSE "forwarded"))
    /\ pc' = "idle"
    /\ cur' = NoCur
    /\ UNCHANGED <<init_options, outbox, outbound, sent, notified, closed>>

\* ---------------------------------------------------- outbound operations
CanSend == Events < MaxEvents

\* BaseSession.send_notification: hands the payload to the transport; fails
\* only when the transport has closed.
send_notification(method) ==
    /\ CanSend
    /\ sent' = [kind |-> "notification", method |-> method,
                status |-> IF closed THEN "failed" ELSE "sent"]
    /\ notified' = notified + 1
    /\ UNCHANGED <<state, init_options, pc, cur, log, outbox, outbound, closed>>

\* BaseSession.send_request: hands the payload to the transport and suspends
\* the caller until the reply is resolved or the transport closes.
send_request(method) ==
    /\ CanSend
    /\ sent' = [kind |-> "request", method |-> method,
                status |-> IF closed THEN "failed" ELSE "sent"]
    /\ outbound' = Append(outbound,
                     [method |-> method,
                      status |-> IF closed THEN "failed" ELSE "pending"])
    /\ UNCHANGED <<state, init_options, pc, cur, log, outbox, notified, closed>>

send_log_message_Marking ==
    /\ CanSend
    /\ sent' = [kind |-> "notification", method |-> "notifications/message",
                status |-> IF closed THEN "failed" ELSE "sent"]
    /\ notified' = notified + 1
    /\ state' = Initialized
    /\ UNCHANGED <<init_options, pc, cur, log, outbox, outbound, closed>>

send_log_message == send_notification("notifications/message")

send_resource_updated == send_notification("notifications/resources/updated")

create_message == send_request("sampling/createMessage")

list_roots == send_request("roots/list")

send_ping_Immediate ==
    /\ CanSend
    /\ sent' = [kind |-> "request", method |-> "ping",
                status |-> IF closed THEN "failed" ELSE "sent"]
    /\ outbound' = Append(outbound, [method |-> "ping", status |-> "resolved"])
    /\ UNCHANGED <<state, init_options, pc, cur, log, outbox, notified, closed>>

send_ping_Gated == state = Initialized /\ send_request("ping")

send_ping == send_request("ping")

send_progress_notification == send_notification("notifications/progress")

send_resource_list_changed == send_notification("notifications/resources/list_changed")

send_tool_list_changed == send_notification("notifications/tools/list_changed")

send_prompt_list_changed == send_notification("notifications/prompts/list_changed")

ResolveReply_All ==
    /\ ~closed
    /\ \E i \in 1 .. Len(outbound) : outbound[i].status = "pending"
    /\ outbound' = [i \in DOMAIN outbound |->
                      IF outbound[i].status = "pending"
                      THEN [outbound[i] EXCEPT !.status = "resolved"]
                      ELSE outbound[i]]
    /\ UNCHANGED <<state, init_options, pc, cur, log, outbox, sent, notified, closed>>

\* The transport resolves the reply of one pending outbound request.
ResolveReply ==
    /\ ~closed
    /\ \E i \in 1 .. Len(outbound) :
         /\ outbound[i].status = "pending"
         /\ outbound' = [outbound EXCEPT ![i].status = "resolved"]
    /\ UNCHANGED <<state, init_options, pc, cur, log, outbox, sent, notified, closed>>

\* The transport session closes: inbound delivery ends, and an inbound
\* handler suspended at that moment is cancelled where it stands.
Close ==
    /\ ~closed
    /\ closed' = TRUE
    /\ pc' = IF pc = "idle" THEN "idle" ELSE "cancelled"
    /\ UNCHANGED <<state, init_options, cur, log, outbox, outbound, sent, notified>>

DeliverClosure_FirstOnly ==
    /\ closed
    /\ Len(outbound) > 0
    /\ outbound[1].status = "pending"
    /\ outbound' = [outbound EXCEPT ![1].status = "failed"]
    /\ UNCHANGED <<state, init_options, pc, cur, log, outbox, sent, notified, closed>>

\* A pending outbound request learns of the closure.
DeliverClosure ==
    /\ closed
    /\ \E i \in 1 .. Len(outbound) :
         /\ outbound[i].status = "pending"
         /\ outbound' = [outbound EXCEPT ![i].status = "failed"]
    /\ UNCHANGED <<state, init_options, pc, cur, log, outbox, sent, notified, closed>>

Next ==
    \/ DeliverRequest
    \/ RespondDone
    \/ DeliverNotification
    \/ NotificationResumed
    \/ send_log_message
    \/ send_resource_updated
    \/ create_message
    \/ list_roots
    \/ send_ping
    \/ send_progress_notification
    \/ send_resource_list_changed
    \/ send_tool_list_changed
    \/ send_prompt_list_changed
    \/ ResolveReply
    \/ Close
    \/ DeliverClosure

Spec == Init /\ [][Next]_vars

\* Once the transport has closed, every caller waiting for a reply is woken.
FairSpec == Spec /\ WF_vars(DeliverClosure)

TypeOK ==
    /\ state \in InitializationState
    /\ init_options \in InitializationOptions
    /\ pc \in {"idle", "responding", "checkpoint", "cancelled"}
    /\ closed \in BOOLEAN
    /\ Events <= MaxEvents

\* ------------------------------------------------------------ properties
Last(s) == s[Len(s)]

Count(s, P(_)) == Cardinality({i \in DOMAIN s : P(s[i])})

IsInitialize(e) == e.msg.method = InitializeMethod

IsAck(e) == e.msg.method = InitializedMethod

IsOtherRequest(e) == e.msg.type = "request" /\ ~IsHandshake(e.msg)

IsOtherNotification(e) == e.msg.type = "notification" /\ ~IsHandshake(e.msg)

\* the step completes the handling of one inbound message
Handled == Len(log') = Len(log) + 1

\* C1: a non-handshake request or notification processed while the state is
\* NotInitialized or Initializing is rejected with an ordering violation.
C1_OrderingViolation ==
    \A i \in DOMAIN log :
        (~IsHandshake(log[i].msg) /\ log[i].at \in {NotInitialized, Initializing})
            => log[i].outcome = "rejected"

C1_Witness ==
    /\ \E i \in DOMAIN log :
         IsOtherRequest(log[i]) /\ log[i].at = Initializing /\ log[i].outcome = "rejected"
    /\ \E i \in DOMAIN log :
         IsOtherNotification(log[i]) /\ log[i].at = NotInitialized
            /\ log[i].outcome = "rejected"

\* C2: once the acknowledgment notification has been processed, every later
\* non-handshake request and notification is forwarded without error,
\* whatever inbound messages arrive in between.
C2_ForwardedAfterAck ==
    \A i, j \in DOMAIN log :
        (i < j /\ IsAck(log[i]) /\ ~IsHandshake(log[j].msg))
            => log[j].outcome = "forwarded"

\* C3: the lifecycle state never moves to an earlier state in the order
\* NotInitialized < Initializing < Initialized.
C3_Monotonic == [][Rank(state') >= Rank(state)]_vars

\* C4: the state is Initialized, and a non-handshake message is accepted,
\* only in a session that has already answered an initialization request.
C4_HandshakeMandatory ==
    /\ state = Initialized =>
         \E i \in DOMAIN log : IsInitialize(log[i]) /\ log[i].outcome = "replied"
    /\ \A j \in DOMAIN log :
         (~IsHandshake(log[j].msg) /\ log[j].outcome = "forwarded")
            => \E i \in DOMAIN log :
                 i < j /\ IsInitialize(log[i]) /\ log[i].outcome = "replied"

C6_OneReplyPerInitialize ==
    \A id \in Ids :
        LET Replies(r) == r.type = "result" /\ r.id = id
            Inits(e) == IsInitialize(e) /\ e.msg.id = id
        IN Count(outbox, Replies) = Count(log, Inits)

C6_Witness ==
    /\ \E i, j \in DOMAIN log :
         /\ i # j /\ IsInitialize(log[i]) /\ IsInitialize(log[j])
         /\ log[i].msg.id # log[j].msg.id
    /\ Len(outbox) = 2

\* C7: every handshake reply carries the configured server name and version,
\* the configured capabilities and the one fixed protocol version, whatever
\* version was requested and whatever the lifecycle state was.
C7_ReplyShape ==
    \A k \in DOMAIN outbox :
        outbox[k].type = "result" =>
            /\ outbox[k].result.serverInfo.name = init_options.server_name
            /\ outbox[k].result.serverInfo.version = init_options.server_version
            /\ outbox[k].result.capabilities = init_options.capabilities
            /\ outbox[k].result.protocolVersion = LATEST_PROTOCOL_VERSION

C7_Witness ==
    \E i, j \in DOMAIN log :
        /\ IsInitialize(log[i]) /\ IsInitialize(log[j])
        /\ log[i].msg.protocolVersion # log[j].msg.protocolVersion
        /\ log[i].msg.protocolVersion # LATEST_PROTOCOL_VERSION
        /\ log[i].at # log[j].at
        /\ log[i].outcome = "replied" /\ log[j].outcome = "replied"

\* C8: the acknowledgment notification processed while the state is already
\* Initialized raises no error and leaves the state Initialized.
C8_AckIdempotent ==
    \A i \in DOMAIN log :
        (IsAck(log[i]) /\ log[i].at = Initialized)
            => log[i].outcome = "accepted" /\ log[i].after = Initialized

C8_Witness ==
    \E i \in DOMAIN log : IsAck(log[i]) /\ log[i].at = Initialized

\* C9: an initialization request is answered in every lifecycle state, never
\* rejected, and all handshake replies of a session have equal contents.
C9_ConsistentReinitialize ==
    /\ \A i \in DOMAIN log : IsInitialize(log[i]) => log[i].outcome = "replied"
    /\ \A k, l \in DOMAIN outbox :
         (outbox[k].type = "result" /\ outbox[l].type = "result")
            => outbox[k].result = outbox[l].result

C9_Witness ==
    \A s \in InitializationState :
        \E i \in DOMAIN log :
            IsInitialize(log[i]) /\ log[i].at = s /\ log[i].outcome = "replied"

\* C10: no outbound operation changes the lifecycle state or the
\* initialization options; the state changes only in a step that processes
\* an inbound message.
OutboundStep == sent' # sent \/ outbound' # outbound \/ notified' # notified

InboundStep == Handled \/ (pc = "idle" /\ pc' = "responding")

C10_OutboundFrame ==
    [][/\ init_options' = init_options
       /\ OutboundStep => state' = state
       /\ state' # state => InboundStep]_vars

C10_Witness ==
    /\ state = Initializing
    /\ \E i \in DOMAIN outbound : outbound[i].status = "pending"
    /\ sent.kind = "notification" /\ sent.status = "failed"

\* C11: outbound traffic is not gated by the lifecycle state: while the
\* transport is open, each of the nine outbound operations can be invoked in
\* every lifecycle state and hands its own message to the transport.
Hands(kind, method) ==
    sent' = [kind |-> kind, method |-> method, status |-> "sent"]

C11_OutboundNotGated ==
    (CanSend /\ ~closed) =>
        /\ ENABLED (send_log_message /\ Hands("notification", "notifications/message"))
        /\ ENABLED (send_resource_updated
                      /\ Hands("notification", "notifications/resources/updated"))
        /\ ENABLED (create_message /\ Hands("request", "sampling/createMessage"))
        /\ ENABLED (list_roots /\ Hands("request", "roots/list"))
        /\ ENABLED (send_ping /\ Hands("request", "ping"))
        /\ ENABLED (send_progress_notification
                      /\ Hands("notification", "notifications/progress"))
        /\ ENABLED (send_resource_list_changed
                      /\ Hands("notification", "notifications/resources/list_changed"))
        /\ ENABLED (send_tool_list_changed
                      /\ Hands("notification", "notifications/tools/list_changed"))
        /\ ENABLED (send_prompt_list_changed
                      /\ Hands("notification", "notifications/prompts/list_changed"))

\* the state is still NotInitialized, so every operation issued so far was
\* issued before any handshake
C11_Witness ==
    /\ state = NotInitialized
    /\ ~closed
    /\ notified > 0
    /\ sent = [kind |-> "request", method |-> "ping", status |-> "sent"]
    /\ \E i \in DOMAIN outbound : outbound[i].method = "ping"

\* C12: no step of the handling of an inbound notification sends anything to
\* the peer: neither its delivery, nor its acceptance as the acknowledgment,
\* nor its rejection adds a reply or an outbound message.
NotificationStep ==
    \/ pc = "idle" /\ pc' = "checkpoint"
    \/ Handled /\ Last(log').msg.type = "notification"

C12_NotificationSendsNothing ==
    [][NotificationStep =>
          /\ outbox' = outbox
          /\ sent' = sent
          /\ outbound' = outbound
          /\ notified' = notified]_vars

C12_Witness ==
    /\ \E i \in DOMAIN log : IsAck(log[i]) /\ log[i].outcome = "accepted"
    /\ \E i \in DOMAIN log : IsOtherNotification(log[i]) /\ log[i].outcome = "rejected"
    /\ outbox = <<>>

\* C13: a message that violates the lifecycle order is never handed to the
\* domain handler, and neither is an initialization request.
Forwarded == SelectSeq(log, LAMBDA e : e.outcome = "forwarded")

C13_ViolationNeverForwarded ==
    \A k \in DOMAIN Forwarded :
        /\ ~IsInitialize(Forwarded[k])
        /\ Forwarded[k].at = Initialized

C13_Witness ==
    /\ \E i \in DOMAIN log : IsOtherRequest(log[i]) /\ log[i].outcome = "rejected"
    /\ \E i \in DOMAIN log : IsInitialize(log[i]) /\ log[i].outcome = "replied"
    /\ \E k \in DOMAIN Forwarded : IsOtherRequest(Forwarded[k])

\* C14: an outbound ping returns success only in a step in which the transport
\* resolves its reply; otherwise its caller stays suspended, and the only
\* other way out is a failure once the transport has closed.
C14_PingNeverFalseSuccess ==
    [][\A i \in DOMAIN outbound' :
          outbound'[i].method = "ping" =>
             IF i \in DOMAIN outbound
             THEN \/ outbound'[i].status = outbound[i].status
                  \/ /\ outbound[i].status = "pending"
                     /\ outbound'[i].status = "resolved"
                     /\ ResolveReply
                  \/ /\ outbound[i].status = "pending"
                     /\ outbound'[i].status = "failed"
                     /\ closed
             ELSE outbound'[i].status = (IF closed THEN "failed" ELSE "pending")]_vars

\* the ping was handed over while the transport was open, and failed after
\* the closure
C14_Witness ==
    /\ closed
    /\ sent = [kind |-> "request", method |-> "ping", status |-> "sent"]
    /\ Len(outbound) = 1
    /\ outbound[1] = [method |-> "ping", status |-> "failed"]

\* C15: an outbound request that is pending when the transport is closed
\* eventually resolves with a closure failure.
C15_PendingFailOnClose ==
    \A i \in 1 .. MaxEvents :
        (closed /\ i \in DOMAIN outbound /\ outbound[i].status = "pending")
            ~> (i \in DOMAIN outbound /\ outbound[i].status = "failed")

\* both requests were handed over while the transport was open, and both
\* have failed after the closure
C15_Witness ==
    /\ closed
    /\ notified = 0
    /\ sent.kind = "request" /\ sent.status = "sent"
    /\ Len(outbound) = 2
    /\ \A i \in DOMAIN outbound : outbound[i].status = "failed"

\* C16: resolving one of two pending outbound requests leaves the other
\* pending, and changes no call but the resolved one.
C16_NoCrossTalk ==
    [][\A i, j \in DOMAIN outbound :
          (/\ i # j
           /\ outbound[i].status = "pending"
           /\ outbound[j].status = "pending"
           /\ outbound'[i].status = "resolved")
              => outbound'[j] = outbound[j]]_vars

C16_Witness ==
    /\ Len(outbound) = 2
    /\ outbound[1] = [method |-> "roots/list", status |-> "pending"]
    /\ outbound[2] = [method |-> "sampling/createMessage", status |-> "resolved"]

\* C17: inbound messages take effect one at a time, in arrival order: while a
\* notification waits at its checkpoint the state does not change and no
\* other inbound message is handled, and a non-handshake request handled
\* right after the acknowledgment is checked against Initialized.
C17_InboundSequential ==
    [][/\ pc = "checkpoint" =>
            /\ log' # log =>
                  /\ Handled
                  /\ Last(log').msg = cur.msg
                  /\ Last(log').at = state
                  /\ pc' = "idle"
            /\ state' # state => log' # log
            /\ pc' \in {"checkpoint", "idle", "cancelled"}
       /\ (Handled /\ IsOtherRequest(Last(log')) /\ Len(log) > 0 /\ IsAck(Last(log)))
            => Last(log').at = Initialized /\ Last(log').outcome = "forwarded"]_vars

C17_Witness ==
    \E i \in DOMAIN log :
        /\ i + 1 \in DOMAIN log
        /\ IsAck(log[i]) /\ log[i].at = Initializing
        /\ IsOtherRequest(log[i + 1]) /\ log[i + 1].outcome = "forwarded"

\* C18: whenever the state is Initializing, an initialization request has
\* been handled and its handshake reply has been sent.
HandshakeReplied ==
    \E i \in DOMAIN log :
        /\ IsInitialize(log[i])
        /\ log[i].outcome = "replied"
        /\ \E k \in DOMAIN outbox :
             outbox[k].type = "result" /\ outbox[k].id = log[i].msg.id

C18_InitializingImpliesReplied == state = Initializing => HandshakeReplied

\* C18 as amended: whenever the state is Initializing, an initialization
\* request has been accepted, and its handshake reply has been sent unless
\* that request's reply is still being sent or was cut off by the closure of
\* the transport.
C18_InitializingImpliesAccepted ==
    state = Initializing =>
        \/ HandshakeReplied
        \/ /\ pc \in {"responding", "cancelled"}
           /\ cur.msg.method = InitializeMethod

C18_Witness ==
    /\ state = Initializing
    /\ pc = "idle"
    /\ HandshakeReplied

\* C19: a rejected request or notification leaves the lifecycle state as it
\* was and the session open for the next message, and whatever was rejected
\* before, an initialization request is still answered and the
\* acknowledgment still brings the state to Initialized.
C19_RejectionKeepsHandshakeOpen ==
    [][Handled =>
          /\ Last(log').outcome = "rejected" =>
                /\ state' = state
                /\ Last(log').after = Last(log').at
                /\ pc' = "idle"
                /\ closed' = closed
          /\ IsInitialize(Last(log')) => Last(log').outcome = "replied"
          /\ IsAck(Last(log')) =>
                Last(log').outcome = "accepted" /\ state' = Initialized]_vars

C19_Witness ==
    /\ state = Initialized
    /\ Len(log) = 4
    /\ IsOtherRequest(log[1]) /\ log[1].outcome = "rejected"
    /\ IsOtherNotification(log[2]) /\ log[2].outcome = "rejected"
    /\ IsInitialize(log[3]) /\ log[3].outcome = "replied"
    /\ IsAck(log[4]) /\ log[4].outcome = "accepted"
====
